---- MODULE Spec2Model ----
(***************************************************************************)
(* Conway's Game of Life on a bounded grid (internal/gol.go) and the       *)
(* animation generator with its repeat-state detector (main.go,            *)
(* GenerateGIF).                                                           *)
(*                                                                         *)
(* The grid is the Go struct GameOfLife: width, height, data (current      *)
(* generation) and back_buffer (staging buffer), both indexed [y][x] from  *)
(* 0.  A nil *GameOfLife is the record NilGame (isNil = TRUE).             *)
(***************************************************************************)
EXTENDS Integers, Sequences, FiniteSets, TLC

VARIABLES
    game,           \* the *GameOfLife the caller holds (NilGame when nil)
    ret,            \* the last call: its name and the error it returned
    pc,             \* "idle" | "loop" | "encode" | "done": position in GenerateGIF
    images,         \* GenerateGIF: var images []*image.Paletted
    delays,         \* GenerateGIF: var delays []int
    hash_sums,      \* GenerateGIF: hash_sums []uint64
    stable,         \* GenerateGIF: stable of the last loop iteration
    maxIterations,  \* the iteration cap the loop compares len(images) with
    output,         \* what gif.EncodeAll was handed: [Image, Delay], or <<>> before
    gens,           \* history: the cell contents of generation 0, 1, ... of the run
    frame,          \* what the last direct call of Image returned, with its scale
    scan,           \* Update run cell by cell: whether it is running and the next cell
    handler,        \* the message handler running: "none" | "text" | "photo"
    runs            \* the GenerateGIF calls of concurrently running handlers

\* the variables the calls on one grid and one GenerateGIF call leave alone
auxVars == <<frame, scan, handler, runs>>

vars == <<game, ret, pc, images, delays, hash_sums, stable, maxIterations, output, gens,
          frame, scan, handler, runs>>

(***************************************************************************)
(* Bounds of the model.                                                    *)
(***************************************************************************)
\* grids are at most MaxSide wide and high and have at most MaxCells cells
MaxSide == 3
MaxCells == 9
\* the iteration cap of a GenerateGIF run is drawn from 1..MaxCap
MaxCap == 5
\* the grids a fair GenerateGIF run starts from have at most MaxLoadedCells cells
MaxLoadedCells == 6
\* the scales Image is called with directly are at most MaxScale
MaxScale == 3
\* the grids of two concurrent GenerateGIF calls have at most MaxGoCells cells
MaxGoCells == 3
\* a text message has at most MaxTextLen characters, line breaks included
MaxTextLen == 4
\* a decoded photo is at most MaxPhotoSide pixels wide and high
MaxPhotoSide == 2

\* the scale GenerateGIF renders with: game.Image(4)
GIFScale == 4
\* the delay GenerateGIF appends per frame: append(delays, 1)
GIFDelay == 1
\* dataBuffer bytes: 64 for an alive cell, 0 for a dead one
AliveByte == 64
DeadByte == 0

\* the frames a run can hold; a run of the loop never reaches it (Len(images)
\* stays below maxIterations <= MaxCap while the loop runs)
MaxFrames == MaxCap + 1

\* widths and heights handed to NewGameOfLife, the invalid ones included
DimArgs == -1 .. MaxSide

\* scales handed to Image, the non-positive ones included
ScaleArgs == -1 .. MaxScale

ErrNil == "nil"
ErrInvalidSize == "invalid size"
ErrOutOfBounds == "out of bounds"
\* os.Open or jpeg.Decode failed
ErrDecode == "decode failed"
\* the runtime panic of a method reading a field through a nil *GameOfLife
PanicNilDereference == "nil pointer dereference"

(***************************************************************************)
(* internal/gol.go                                                         *)
(***************************************************************************)
NilGame == [isNil |-> TRUE, width |-> 0, height |-> 0, data |-> <<>>, back_buffer |-> <<>>]

\* make([][]bool, height) with each row make([]bool, width): all false
MakeBuffer(width, height) == [i \in 0 .. height - 1 |-> [j \in 0 .. width - 1 |-> FALSE]]

\* the size check written with < instead of <=: a zero width or height is accepted
NewGameOfLifeResultZeroAccepted(width, height) ==
    IF width < 0 \/ height < 0
    THEN [game |-> NilGame, err |-> ErrInvalidSize]
    ELSE [game |-> [isNil |-> FALSE, width |-> width, height |-> height,
                    data |-> MakeBuffer(width, height),
                    back_buffer |-> MakeBuffer(width, height)],
          err |-> ErrNil]

\* NewGameOfLife(width, height): the pair (game, err) it returns
NewGameOfLifeResult(width, height) ==
    IF width <= 0 \/ height <= 0
    THEN [game |-> NilGame, err |-> ErrInvalidSize]
    ELSE [game |-> [isNil |-> FALSE, width |-> width, height |-> height,
                    data |-> MakeBuffer(width, height),
                    back_buffer |-> MakeBuffer(width, height)],
          err |-> ErrNil]

\* Set clamping the coordinates to the nearest edge cell instead of failing
SetResultClamped(g, x, y, val) ==
    LET cx == IF x < 0 THEN 0 ELSE IF x >= g.width THEN g.width - 1 ELSE x
        cy == IF y < 0 THEN 0 ELSE IF y >= g.height THEN g.height - 1 ELSE y
    IN  [game |-> [g EXCEPT !.data[cy][cx] = val, !.back_buffer[cy][cx] = val],
         err |-> ErrNil]

\* Set writing the current buffer only: the staging buffer keeps its old value
SetResultDataOnly(g, x, y, val) ==
    IF x < 0 \/ x >= g.width \/ y < 0 \/ y >= g.height
    THEN [game |-> g, err |-> ErrOutOfBounds]
    ELSE [game |-> [g EXCEPT !.data[y][x] = val], err |-> ErrNil]

\* (g *GameOfLife) Set(x, y, val): the grid afterwards and the error returned
SetResult(g, x, y, val) ==
    IF x < 0 \/ x >= g.width
    THEN [game |-> g, err |-> ErrOutOfBounds]
    ELSE IF y < 0 \/ y >= g.height
    THEN [game |-> g, err |-> ErrOutOfBounds]
    ELSE [game |-> [g EXCEPT !.data[y][x] = val, !.back_buffer[y][x] = val],
          err |-> ErrNil]

\* At on a torus: a coordinate off one edge reads the cell at the opposite edge
AtWrapped(g, x, y) == g.data[y % g.height][x % g.width]

\* (g *GameOfLife) At(x, y)
At(g, x, y) ==
    IF x < 0 \/ x >= g.width
    THEN FALSE
    ELSE IF y < 0 \/ y >= g.height
    THEN FALSE
    ELSE g.data[y][x]

\* Flush copying nothing
FlushResultSkipped(g) == g

\* (g *GameOfLife) Flush(): data[i][j] = back_buffer[i][j] for every cell
FlushResult(g) ==
    [g EXCEPT !.data = [i \in 0 .. g.height - 1 |->
                           [j \in 0 .. g.width - 1 |-> g.back_buffer[i][j]]]]

\* CellValue's two nested loops, i outer and j inner over 0..2, from step k = 3*i + j
RECURSIVE CellValueFrom(_, _, _, _)
CellValueFrom(g, x, y, k) ==
    IF k >= 9
    THEN 0
    ELSE LET i == k \div 3
             j == k % 3
         IN  (IF j = 1 /\ i = 1
              THEN 0
              ELSE IF At(g, j + x - 1, i + y - 1) THEN 1 ELSE 0)
             + CellValueFrom(g, x, y, k + 1)

\* (g *GameOfLife) CellValue(x, y)
CellValue(g, x, y) == CellValueFrom(g, x, y, 0)

\* the loop body with the overpopulation test off by one (cnt > 4)
UpdateCellOvercrowded(alive, cnt, back) ==
    IF alive
    THEN IF cnt < 2 \/ cnt > 4 THEN FALSE ELSE back
    ELSE IF cnt = 3 THEN TRUE ELSE back

\* the loop body without the underpopulation test: an alive cell dies only of
\* overcrowding
UpdateCellNoUnderpopulation(alive, cnt, back) ==
    IF alive
    THEN IF cnt > 3 THEN FALSE ELSE back
    ELSE IF cnt = 3 THEN TRUE ELSE back

\* Update's loop body for one cell: the value back_buffer[i][j] holds after it,
\* given the cell's current value, its count and what back_buffer[i][j] held
UpdateCell(alive, cnt, back) ==
    IF alive
    THEN IF cnt < 2 \/ cnt > 3 THEN FALSE ELSE back
    ELSE IF cnt = 3 THEN TRUE ELSE back

\* the loop body updating in place: the new value goes to the current buffer too
UpdateStepInPlace(g, k) ==
    LET i == k \div g.width
        j == k % g.width
        v == UpdateCell(At(g, j, i), CellValue(g, j, i), g.back_buffer[i][j])
    IN  [g EXCEPT !.data[i][j] = v, !.back_buffer[i][j] = v]

\* one pass of Update's loop body, for cell number k = i*width + j
UpdateStepResult(g, k) ==
    LET i == k \div g.width
        j == k % g.width
    IN  [g EXCEPT !.back_buffer[i][j] =
            UpdateCell(At(g, j, i), CellValue(g, j, i), g.back_buffer[i][j])]

\* Update's scan: every cell's loop body, reading data only, writing back_buffer only
UpdateScan(g) ==
    [g EXCEPT !.back_buffer =
        [i \in 0 .. g.height - 1 |->
            [j \in 0 .. g.width - 1 |->
                UpdateCell(At(g, j, i), CellValue(g, j, i), g.back_buffer[i][j])]]]

\* (g *GameOfLife) Update(): the scan, then Flush
UpdateResult(g) == FlushResult(UpdateScan(g))

\* the palette of Image: index 0 is color.RGBA{255,255,255,255}, index 1 is
\* color.RGBA{0,0,0,255}; img.Set stores the index of the colour it is given
White == 0
Black == 1

\* image.NewPaletted(image.Rect(0, 0, w, h), palette): image.Rect orders its
\* corners; the pixel columns and rows of the image
PalettedColumns(w) == (IF w < 0 THEN w ELSE 0) .. (IF w < 0 THEN 0 ELSE w) - 1
PalettedRows(h) == (IF h < 0 THEN h ELSE 0) .. (IF h < 0 THEN 0 ELSE h) - 1

\* DrawRect(x0, y0, x1, y1, col, img) calls img.Set(j, i, col) for every
\* y0 <= i <= y1 and x0 <= j <= x1, both corners included: whether it sets
\* pixel (px, py) (image.Paletted.Set ignores the points outside the image)
DrawRect(x0, y0, x1, y1, px, py) == y0 <= py /\ py <= y1 /\ x0 <= px /\ px <= x1

\* the cells drawn in the opposite order: where the rectangles of two cells
\* overlap, the cell drawn first by Image keeps the pixel
PixelFromFirstDrawn(g, scale, x, y, k) ==
    LET covering == {m \in 0 .. k :
                        DrawRect((m % g.width) * scale, (m \div g.width) * scale,
                                 (m % g.width) * scale + scale,
                                 (m \div g.width) * scale + scale, x, y)}
    IN  IF covering = {}
        THEN White
        ELSE LET m == CHOOSE c \in covering : \A d \in covering : c <= d
             IN  IF At(g, m % g.width, m \div g.width) THEN Black ELSE White

\* Image's two nested loops draw the cells row by row, cell number
\* k = i*width + j with DrawRect(px, py, px+scale, py+scale, col, img) where
\* px = j*scale, py = i*scale: the colour of pixel (x, y) once the cells
\* 0 .. k are drawn (palette index 0 before any is)
RECURSIVE PixelFrom(_, _, _, _, _)
PixelFrom(g, scale, x, y, k) ==
    IF k < 0
    THEN White
    ELSE LET i == k \div g.width
             j == k % g.width
             px == j * scale
             py == i * scale
         IN  IF DrawRect(px, py, px + scale, py + scale, x, y)
             THEN IF At(g, j, i) THEN Black ELSE White
             ELSE PixelFrom(g, scale, x, y, k - 1)

\* (g *GameOfLife) Image(scale): the image after the last cell is drawn;
\* pixels are [y][x]
Image(g, scale) ==
    [y \in PalettedRows(g.height * scale) |->
        [x \in PalettedColumns(g.width * scale) |->
            PixelFrom(g, scale, x, y, g.width * g.height - 1)]]

(***************************************************************************)
(* main.go, GenerateGIF                                                    *)
(***************************************************************************)
\* the characters of a text message: the key, its upper case, another
\* character, the line break
TextChars == {"o", "O", " ", "\n"}

\* strings.Split(data, "\n"): the lines of data (one more than line breaks),
\* where cur is the line being read
RECURSIVE SplitFrom(_, _, _)
SplitFrom(data, k, cur) ==
    IF k > Len(data)
    THEN <<cur>>
    ELSE IF data[k] = "\n"
    THEN <<cur>> \o SplitFrom(data, k + 1, <<>>)
    ELSE SplitFrom(data, k + 1, Append(cur, data[k]))

Split(data) == SplitFrom(data, 1, <<>>)

\* strings.ToLower, on one character
ToLower(c) == IF c = "O" THEN "o" ELSE c

\* the width LoadFromText computes: the length of the longest line
RECURSIVE MaxLineWidth(_, _)
MaxLineWidth(lines, i) ==
    IF i > Len(lines)
    THEN 0
    ELSE LET rest == MaxLineWidth(lines, i + 1)
         IN  IF Len(lines[i]) > rest THEN Len(lines[i]) ELSE rest

\* LoadFromText(data, key): the pair (game, err) it returns. Every Set it makes
\* is in bounds and writes both buffers; the cells past the end of a short
\* line keep the false NewGameOfLife gave them.
LoadFromTextResult(data, key) ==
    LET lines == Split(data)
        height == Len(lines)
        width == MaxLineWidth(lines, 1)
        r == NewGameOfLifeResult(width, height)
        d == [i \in 0 .. height - 1 |->
                [j \in 0 .. width - 1 |->
                    /\ j < Len(lines[i + 1])
                    /\ ToLower(lines[i + 1][j + 1]) = key]]
    IN  IF r.err # ErrNil
        THEN [game |-> NilGame, err |-> r.err]
        ELSE [game |-> [r.game EXCEPT !.data = d, !.back_buffer = d], err |-> ErrNil]

\* LoadFromImage(img): img is the gray value of every pixel, rows [y][x] from 1.
\* The error of NewGameOfLife is not tested before the loops; a pixel darker
\* than 16 is Set alive; game and err are returned as they are.
LoadFromImageResult(img) ==
    LET dy == Len(img)
        dx == IF dy = 0 THEN 0 ELSE Len(img[1])
        r == NewGameOfLifeResult(dx, dy)
        d == [i \in 0 .. dy - 1 |-> [j \in 0 .. dx - 1 |-> img[i + 1][j + 1] < 16]]
    IN  IF r.game.isNil
        THEN r
        ELSE [game |-> [r.game EXCEPT !.data = d, !.back_buffer = d], err |-> r.err]

\* LoadFromJPEG(file): nil and the error when os.Open or jpeg.Decode fails,
\* else what LoadFromImage returns
LoadFromJPEGResult(decoded, img) ==
    IF ~decoded
    THEN [game |-> NilGame, err |-> ErrDecode]
    ELSE LoadFromImageResult(img)

\* the fill loop with iter++ forgotten: every cell is written to dataBuffer[0],
\* the rest of the buffer keeps the zeroes make() gave it
DataBufferIterStuck(g) ==
    [iter \in 0 .. g.width * g.height - 1 |->
        IF iter = 0 /\ At(g, g.width - 1, g.height - 1) THEN AliveByte ELSE DeadByte]

\* the loop filling dataBuffer: row-major, iter = i*width + j, 64 alive, 0 dead
DataBuffer(g) ==
    [iter \in 0 .. g.width * g.height - 1 |->
        IF At(g, iter % g.width, iter \div g.width) THEN AliveByte ELSE DeadByte]

\* crc64.Checksum(dataBuffer, crcTable), modelled as an injective function of the
\* buffer's bytes (no collisions): the number whose binary digits are the cells
RECURSIVE ChecksumFrom(_, _)
ChecksumFrom(buf, k) ==
    IF k \notin DOMAIN buf
    THEN 0
    ELSE (IF buf[k] = DeadByte THEN 0 ELSE 1) + 2 * ChecksumFrom(buf, k + 1)

Checksum(buf) == ChecksumFrom(buf, 0)

\* the search of hash_sums for hs: stable
Seen(sums, hs) == \E i \in 1 .. Len(sums) : sums[i] = hs

\* the exit test comparing with > instead of ==: one frame too many
LoopBreakLate(stbl, nimages, cap) == stbl \/ nimages > cap

\* the exit test with && instead of ||
LoopBreakBoth(stbl, nimages, cap) == stbl /\ nimages = cap

\* the loop's exit test: stable || len(images) == MaxIterations
LoopBreak(stbl, nimages, cap) == stbl \/ nimages = cap

\* hash_sums after one iteration: hs is appended unless the loop breaks
NextHashSums(sums, hs, brk) == IF brk THEN sums ELSE Append(sums, hs)

(***************************************************************************)
(* The state machine.                                                      *)
(***************************************************************************)
Call(op, err) == [op |-> op, err |-> err]

\* the call before the last one was not Image
NoPrev == [isNil |-> TRUE, scale |-> 0, pix |-> <<>>]

\* no Image call has returned
NoFrame == [isNil |-> TRUE, scale |-> 0, pix |-> <<>>, prev |-> NoPrev]

\* Update is not running
NoScan == [active |-> FALSE, k |-> 0, before |-> <<>>]

\* no direct Image call, no cell-by-cell Update, no handler, no concurrent runs
AuxInit ==
    /\ frame = NoFrame
    /\ scan = NoScan
    /\ handler = "none"
    /\ runs = <<>>

Init ==
    /\ game = NilGame
    /\ ret = Call("none", ErrNil)
    /\ pc = "idle"
    /\ images = <<>>
    /\ delays = <<>>
    /\ hash_sums = <<>>
    /\ stable = FALSE
    /\ maxIterations = 0
    /\ output = <<>>
    /\ gens = <<>>
    /\ AuxInit

ResetRun ==
    /\ images' = <<>>
    /\ delays' = <<>>
    /\ hash_sums' = <<>>
    /\ stable' = FALSE
    /\ maxIterations' = 0
    /\ output' = <<>>
    /\ gens' = <<>>

\* a loader calls NewGameOfLife(width, height) at the start of a handler
NewGameOfLife(width, height) ==
    /\ pc = "idle"
    /\ game.isNil
    /\ width * height <= MaxCells
    /\ LET r == NewGameOfLifeResult(width, height)
       IN  /\ game' = r.game
           /\ ret' = Call("NewGameOfLife", r.err)
    /\ UNCHANGED <<pc, images, delays, hash_sums, stable, maxIterations, output, gens>>
    /\ UNCHANGED auxVars

\* the handler (or TerminalUpdate's caller) returns: its grid and the locals of
\* a finished GenerateGIF call go out of scope
HandlerReturn ==
    /\ pc \in {"idle", "done"}
    /\ game' = NilGame
    /\ ret' = Call("none", ErrNil)
    /\ pc' = "idle"
    /\ ResetRun
    /\ UNCHANGED auxVars

\* game.Set(x, y, val) on a grid that exists
Set(x, y, val) ==
    /\ pc = "idle"
    /\ ~game.isNil
    /\ LET r == SetResult(game, x, y, val)
       IN  /\ game' = r.game
           /\ ret' = Call("Set", r.err)
    /\ UNCHANGED <<pc, images, delays, hash_sums, stable, maxIterations, output, gens>>
    /\ UNCHANGED auxVars

\* game.Update() called directly (TerminalUpdate's loop body)
Update ==
    /\ pc = "idle"
    /\ ~game.isNil
    /\ game' = UpdateResult(game)
    /\ ret' = Call("Update", ErrNil)
    /\ UNCHANGED <<pc, images, delays, hash_sums, stable, maxIterations, output, gens>>
    /\ UNCHANGED auxVars

\* game.Flush() called directly
Flush ==
    /\ pc = "idle"
    /\ ~game.isNil
    /\ game' = FlushResult(game)
    /\ ret' = Call("Flush", ErrNil)
    /\ UNCHANGED <<pc, images, delays, hash_sums, stable, maxIterations, output, gens>>
    /\ UNCHANGED auxVars

\* GenerateGIF(game, output) up to the loop: images, delays and hash_sums empty.
\* The cap is the constant MaxIterations of main.go; the model draws it from
\* 1..MaxCap, since no grid of MaxCells cells has 2048 different generations.
GenerateGIFStart(cap) ==
    /\ pc = "idle"
    /\ ~game.isNil
    /\ pc' = "loop"
    /\ images' = <<>>
    /\ delays' = <<>>
    /\ hash_sums' = <<>>
    /\ stable' = FALSE
    /\ maxIterations' = cap
    /\ output' = <<>>
    /\ gens' = <<game.data>>
    /\ ret' = Call("GenerateGIF", ErrNil)
    /\ UNCHANGED game
    /\ UNCHANGED auxVars

\* the loop iteration advancing before it renders: the frame appended is the
\* picture of the generation Update has just computed
GenerateGIFLoopAdvanceFirst ==
    /\ pc = "loop"
    /\ Len(images) < MaxFrames
    /\ \E next \in {UpdateResult(game)} :
       \E img \in {Image(next, GIFScale)} :
       LET hs == Checksum(DataBuffer(next))
           stbl == Seen(hash_sums, hs)
           brk == LoopBreak(stbl, Len(images) + 1, maxIterations)
       IN  /\ images' = Append(images, img)
           /\ delays' = Append(delays, GIFDelay)
           /\ game' = next
           /\ gens' = Append(gens, next.data)
           /\ stable' = stbl
           /\ hash_sums' = NextHashSums(hash_sums, hs, brk)
           /\ pc' = IF brk THEN "encode" ELSE "loop"
    /\ UNCHANGED <<ret, maxIterations, output>>
    /\ UNCHANGED auxVars

\* one iteration of GenerateGIF's loop: render, Update, fingerprint, search,
\* break or append
GenerateGIFLoop ==
    /\ pc = "loop"
    /\ Len(images) < MaxFrames
    /\ \E img \in {Image(game, GIFScale)}, next \in {UpdateResult(game)} :
       LET hs == Checksum(DataBuffer(next))
           stbl == Seen(hash_sums, hs)
           brk == LoopBreak(stbl, Len(images) + 1, maxIterations)
       IN  /\ images' = Append(images, img)
           /\ delays' = Append(delays, GIFDelay)
           /\ game' = next
           /\ gens' = Append(gens, next.data)
           /\ stable' = stbl
           /\ hash_sums' = NextHashSums(hash_sums, hs, brk)
           /\ pc' = IF brk THEN "encode" ELSE "loop"
    /\ UNCHANGED <<ret, maxIterations, output>>
    /\ UNCHANGED auxVars

\* gif.EncodeAll(output, &gif.GIF{Image: images, Delay: delays})
GenerateGIFEncode ==
    /\ pc = "encode"
    /\ output' = [Image |-> images, Delay |-> delays]
    /\ pc' = "done"
    /\ UNCHANGED <<game, ret, images, delays, hash_sums, stable, maxIterations, gens>>
    /\ UNCHANGED auxVars

Next ==
    \/ \E width \in DimArgs, height \in DimArgs : NewGameOfLife(width, height)
    \/ \E x \in -1 .. game.width, y \in -1 .. game.height, val \in BOOLEAN : Set(x, y, val)
    \/ Update
    \/ Flush
    \/ \E cap \in 1 .. MaxCap : GenerateGIFStart(cap)
    \/ GenerateGIFLoop
    \/ GenerateGIFEncode
    \/ HandlerReturn

Spec == Init /\ [][Next]_vars

\* every grid a loader can hand over: NewGameOfLife and then Set calls, which
\* leave the two buffers equal
LoadedGrids ==
    UNION {
        {[isNil |-> FALSE, width |-> width, height |-> height, data |-> d, back_buffer |-> d] :
            d \in [0 .. height - 1 -> [0 .. width - 1 -> BOOLEAN]]} :
        <<width, height>> \in {wh \in (1 .. MaxSide) \X (1 .. MaxSide) : wh[1] * wh[2] <= MaxLoadedCells}}

\* TextReceivedHandler after LoadFromText has returned its grid
LoadedInit ==
    /\ game \in LoadedGrids
    /\ ret = Call("LoadFromText", ErrNil)
    /\ pc = "idle"
    /\ images = <<>>
    /\ delays = <<>>
    /\ hash_sums = <<>>
    /\ stable = FALSE
    /\ maxIterations = 0
    /\ output = <<>>
    /\ gens = <<>>
    /\ AuxInit

\* the handler's one call of GenerateGIF
NextGIF ==
    \/ \E cap \in 1 .. MaxCap : GenerateGIFStart(cap)
    \/ GenerateGIFLoop
    \/ GenerateGIFEncode

\* a GenerateGIF call on a loaded grid; the loop is a sequential Go loop that
\* nothing suspends: an iteration that can run does run, and so does EncodeAll
FairSpec ==
    /\ LoadedInit
    /\ [][NextGIF]_vars
    /\ WF_vars(GenerateGIFLoop)
    /\ WF_vars(GenerateGIFEncode)

\* Image rendering and then advancing the grid it rendered
ImageCallAdvancing(scale) ==
    /\ pc = "idle"
    /\ ~game.isNil
    /\ \E img \in {Image(game, scale)} :
          frame' = [isNil |-> FALSE, scale |-> scale, pix |-> img,
                    prev |-> IF ret.op = "Image"
                             THEN [isNil |-> FALSE, scale |-> frame.scale, pix |-> frame.pix]
                             ELSE NoPrev]
    /\ game' = UpdateResult(game)
    /\ ret' = Call("Image", ErrNil)
    /\ UNCHANGED <<pc, images, delays, hash_sums, stable, maxIterations, output, gens>>
    /\ UNCHANGED <<scan, handler, runs>>

\* game.Image(scale) called directly: frame holds the image returned and, when
\* the call before was Image too, the image that one returned. Image has no
\* error result.
ImageCall(scale) ==
    /\ pc = "idle"
    /\ ~game.isNil
    /\ \E img \in {Image(game, scale)} :
          frame' = [isNil |-> FALSE, scale |-> scale, pix |-> img,
                    prev |-> IF ret.op = "Image"
                             THEN [isNil |-> FALSE, scale |-> frame.scale, pix |-> frame.pix]
                             ELSE NoPrev]
    /\ ret' = Call("Image", ErrNil)
    /\ UNCHANGED <<game, pc, images, delays, hash_sums, stable, maxIterations, output, gens>>
    /\ UNCHANGED <<scan, handler, runs>>

\* Image and Update calls on a loaded grid
NextImage ==
    \/ \E scale \in ScaleArgs : ImageCall(scale)
    \/ Update

ImageSpec == LoadedInit /\ [][NextImage]_vars

\* Update is entered: its loops start at cell 0; scan.before keeps the
\* generation the grid holds at that moment
UpdateBegin ==
    /\ pc = "idle"
    /\ ~game.isNil
    /\ ~scan.active
    /\ scan' = [active |-> TRUE, k |-> 0, before |-> game.data]
    /\ UNCHANGED <<game, ret, pc, images, delays, hash_sums, stable, maxIterations, output, gens>>
    /\ UNCHANGED <<frame, handler, runs>>

\* Update's loop body runs for the next cell
UpdateStep ==
    /\ scan.active
    /\ scan.k < game.width * game.height
    /\ game' = UpdateStepResult(game, scan.k)
    /\ scan' = [scan EXCEPT !.k = @ + 1]
    /\ UNCHANGED <<ret, pc, images, delays, hash_sums, stable, maxIterations, output, gens>>
    /\ UNCHANGED <<frame, handler, runs>>

\* the loops are over: Update calls Flush and returns
UpdateFlush ==
    /\ scan.active
    /\ scan.k = game.width * game.height
    /\ game' = FlushResult(game)
    /\ scan' = NoScan
    /\ ret' = Call("Update", ErrNil)
    /\ UNCHANGED <<pc, images, delays, hash_sums, stable, maxIterations, output, gens>>
    /\ UNCHANGED <<frame, handler, runs>>

\* Update calls on a loaded grid, run cell by cell
NextScan ==
    \/ UpdateBegin
    \/ UpdateStep
    \/ UpdateFlush

ScanSpec == LoadedInit /\ [][NextScan]_vars

\* the text messages: every string of at most MaxTextLen characters
Texts == UNION {[1 .. n -> TextChars] : n \in 0 .. MaxTextLen}

\* the decoded photos: gray values just below and at the threshold 16, and the
\* two ends of the scale
GrayValues == {0, 15, 16, 255}
Photos ==
    UNION {[1 .. dy -> [1 .. dx -> GrayValues]] :
              <<dx, dy>> \in (1 .. MaxPhotoSide) \X (1 .. MaxPhotoSide)}

\* main's loop starts a handler for an update: PhotoReceivedHandler when the
\* message has a photo, else TextReceivedHandler
Receive(kind) ==
    /\ handler = "none"
    /\ pc = "idle"
    /\ handler' = kind
    /\ UNCHANGED <<game, ret, pc, images, delays, hash_sums, stable, maxIterations, output, gens>>
    /\ UNCHANGED <<frame, scan, runs>>

\* TextReceivedHandler: gol, err := internal.LoadFromText(data, 'o')
LoadFromText(data) ==
    /\ handler = "text"
    /\ pc = "idle"
    /\ ret.op = "none"
    /\ \E r \in {LoadFromTextResult(data, "o")} :
          /\ game' = r.game
          /\ ret' = Call("LoadFromText", r.err)
    /\ UNCHANGED <<pc, images, delays, hash_sums, stable, maxIterations, output, gens>>
    /\ UNCHANGED auxVars

\* PhotoReceivedHandler: gol, err := internal.LoadFromJPEG(image_path)
LoadFromJPEG(decoded, img) ==
    /\ handler = "photo"
    /\ pc = "idle"
    /\ ret.op = "none"
    /\ \E r \in {LoadFromJPEGResult(decoded, img)} :
          /\ game' = r.game
          /\ ret' = Call("LoadFromJPEG", r.err)
    /\ UNCHANGED <<pc, images, delays, hash_sums, stable, maxIterations, output, gens>>
    /\ UNCHANGED auxVars

\* GenerateGIF(game, output) as a handler calls it: its first statement reads
\* game.GetWidth(), which panics on a nil grid; on a grid it goes on to the loop
GenerateGIFCall(cap) ==
    IF game.isNil
    THEN /\ pc = "idle"
         /\ pc' = "panic"
         /\ ret' = Call("GenerateGIF", PanicNilDereference)
         /\ UNCHANGED <<game, images, delays, hash_sums, stable, maxIterations, output, gens>>
         /\ UNCHANGED auxVars
    ELSE GenerateGIFStart(cap)

\* TextReceivedHandler past its error test: GenerateGIF(gol, &buffer)
TextGenerateGIF(cap) ==
    /\ handler = "text"
    /\ ret.op = "LoadFromText"
    /\ ret.err = ErrNil
    /\ GenerateGIFCall(cap)

\* PhotoReceivedHandler: GenerateGIF(gol, &buffer), err not looked at
PhotoGenerateGIF(cap) ==
    /\ handler = "photo"
    /\ ret.op = "LoadFromJPEG"
    /\ GenerateGIFCall(cap)

\* a handler returns: TextReceivedHandler when LoadFromText failed, either
\* handler after GenerateGIF has returned and the animation is sent
HandlerEnd ==
    /\ \/ handler = "text" /\ ret.op = "LoadFromText" /\ ret.err # ErrNil
       \/ handler # "none" /\ pc = "done"
    /\ game' = NilGame
    /\ ret' = Call("none", ErrNil)
    /\ pc' = "idle"
    /\ ResetRun
    /\ handler' = "none"
    /\ UNCHANGED <<frame, scan, runs>>

\* the two message handlers, one update at a time
NextHandler ==
    \/ \E kind \in {"text", "photo"} : Receive(kind)
    \/ \E data \in Texts : LoadFromText(data)
    \/ \E decoded \in BOOLEAN, img \in Photos : LoadFromJPEG(decoded, img)
    \/ \E cap \in 1 .. MaxCap : TextGenerateGIF(cap)
    \/ \E cap \in 1 .. MaxCap : PhotoGenerateGIF(cap)
    \/ GenerateGIFLoop
    \/ GenerateGIFEncode
    \/ HandlerEnd

HandlerSpec == Init /\ [][NextHandler]_vars

\* the goroutines main has started, each running one handler
Goroutines == {1, 2}

\* the grids the two handlers loaded: one grid each, never shared
GoGrids ==
    UNION {
        {[isNil |-> FALSE, width |-> width, height |-> height, data |-> d, back_buffer |-> d] :
            d \in [0 .. height - 1 -> [0 .. width - 1 -> BOOLEAN]]} :
        <<width, height>> \in {wh \in (1 .. MaxSide) \X (1 .. MaxSide) : wh[1] * wh[2] <= MaxGoCells}}

\* a handler about to call GenerateGIF on its grid g: the parameter game and
\* the locals of the call (start keeps g for reference)
GoRun(g) ==
    [game |-> g, start |-> g, pc |-> "idle", images |-> <<>>, delays |-> <<>>,
     hash_sums |-> <<>>, stable |-> FALSE, output |-> <<>>]

\* two handlers hold a loaded grid each; MaxIterations is the one constant
\* they share
ConcurrentInit ==
    /\ runs \in [Goroutines -> {GoRun(g) : g \in GoGrids}]
    /\ maxIterations = MaxCap
    /\ game = NilGame
    /\ ret = Call("none", ErrNil)
    /\ pc = "idle"
    /\ images = <<>>
    /\ delays = <<>>
    /\ hash_sums = <<>>
    /\ stable = FALSE
    /\ output = <<>>
    /\ gens = <<>>
    /\ frame = NoFrame
    /\ scan = NoScan
    /\ handler = "none"

\* a fingerprint history shared by all calls (a package-level hash_sums)
HistoryShared(rs, p) == rs[1].hash_sums \o rs[2].hash_sums

\* the fingerprint history the call in goroutine p searches: its own local
\* hash_sums
History(rs, p) == rs[p].hash_sums

\* goroutine p enters GenerateGIF: images, delays and hash_sums start empty
GoGenerateGIFStart(p) ==
    /\ runs[p].pc = "idle"
    /\ runs' = [runs EXCEPT ![p] = [@ EXCEPT !.pc = "loop", !.images = <<>>,
                                             !.delays = <<>>, !.hash_sums = <<>>]]
    /\ UNCHANGED <<game, ret, pc, images, delays, hash_sums, stable, maxIterations, output, gens>>
    /\ UNCHANGED <<frame, scan, handler>>

\* goroutine p runs one iteration of GenerateGIF's loop
GoGenerateGIFLoop(p) ==
    /\ runs[p].pc = "loop"
    /\ Len(runs[p].images) < MaxFrames
    /\ \E img \in {Image(runs[p].game, GIFScale)}, next \in {UpdateResult(runs[p].game)} :
       LET hs == Checksum(DataBuffer(next))
           stbl == Seen(History(runs, p), hs)
           brk == LoopBreak(stbl, Len(runs[p].images) + 1, maxIterations)
       IN  runs' = [runs EXCEPT ![p] =
                      [@ EXCEPT !.images = Append(@, img),
                                !.delays = Append(@, GIFDelay),
                                !.game = next,
                                !.stable = stbl,
                                !.hash_sums = NextHashSums(@, hs, brk),
                                !.pc = IF brk THEN "encode" ELSE "loop"]]
    /\ UNCHANGED <<game, ret, pc, images, delays, hash_sums, stable, maxIterations, output, gens>>
    /\ UNCHANGED <<frame, scan, handler>>

\* goroutine p encodes its frames and returns from GenerateGIF: the locals of
\* the call are gone
GoGenerateGIFEncode(p) ==
    /\ runs[p].pc = "encode"
    /\ runs' = [runs EXCEPT ![p] =
                  [@ EXCEPT !.output = [Image |-> runs[p].images, Delay |-> runs[p].delays],
                            !.hash_sums = <<>>,
                            !.pc = "done"]]
    /\ UNCHANGED <<game, ret, pc, images, delays, hash_sums, stable, maxIterations, output, gens>>
    /\ UNCHANGED <<frame, scan, handler>>

\* the goroutines run interleaved, one step of one of them at a time
NextConcurrent ==
    \/ \E p \in Goroutines : GoGenerateGIFStart(p)
    \/ \E p \in Goroutines : GoGenerateGIFLoop(p)
    \/ \E p \in Goroutines : GoGenerateGIFEncode(p)

ConcurrentSpec == ConcurrentInit /\ [][NextConcurrent]_vars

TypeOK ==
    /\ pc \in {"idle", "loop", "encode", "done", "panic"}
    /\ game.isNil \/ (game.width >= 1 /\ game.height >= 1)
    /\ Len(images) = Len(delays)

(***************************************************************************)
(* Properties of the grid engine.                                          *)
(***************************************************************************)
InBounds(g, x, y) == 0 <= x /\ x < g.width /\ 0 <= y /\ y < g.height

\* the Game-of-Life rule: survive on 2 or 3 neighbours, be born on exactly 3
LifeRule(alive, cnt) == (alive /\ (cnt = 2 \/ cnt = 3)) \/ (~alive /\ cnt = 3)

\* C1: every step that runs Update (called directly or by GenerateGIF's loop)
\* leaves, at every in-bounds (x,y), At(x,y) true iff the cell was alive before
\* with a pre-call CellValue of 2 or 3, or dead before with a pre-call CellValue
\* of exactly 3; whatever Set and Update calls came earlier.
C1_UpdateIsLifeSuccessor ==
    [][((ret'.op = "Update" /\ Update) \/ (pc = "loop" /\ GenerateGIFLoop)) =>
        \A y \in 0 .. game.height - 1, x \in 0 .. game.width - 1 :
            At(game', x, y) = LifeRule(At(game, x, y), CellValue(game, x, y))]_vars

\* a direct Update has returned the vertical phase of the blinker on a 3x3 grid:
\* cells were born and cells died in that call
C1_Witness ==
    /\ ret.op = "Update"
    /\ game.width = 3 /\ game.height = 3
    /\ \A y \in 0 .. 2, x \in 0 .. 2 : game.data[y][x] = (x = 1)

\* the alive cells among the in-bounds Moore neighbours of (x,y), (x,y) excluded
AliveNeighbours(g, x, y) ==
    {c \in (0 .. g.width - 1) \X (0 .. g.height - 1) :
        /\ c # <<x, y>>
        /\ c[1] - x \in -1 .. 1
        /\ c[2] - y \in -1 .. 1
        /\ g.data[c[2]][c[1]]}

AllDead(g) == \A y \in 0 .. g.height - 1, x \in 0 .. g.width - 1 : ~g.data[y][x]
AllAlive(g) == \A y \in 0 .. g.height - 1, x \in 0 .. g.width - 1 : g.data[y][x]

\* C8: in every grid state and at every coordinate, also the ones one step
\* outside the grid, CellValue(x,y) is the number of alive in-bounds Moore
\* neighbours of (x,y) (no wraparound, the cell itself not counted) and lies in
\* 0..8; it is 0 everywhere on an all-dead grid and 8 at the centre of a fully
\* alive 3x3 grid.
C8_CellValueCountsNeighbours ==
    ~game.isNil =>
        /\ \A x \in -1 .. game.width, y \in -1 .. game.height :
              \A cnt \in {CellValue(game, x, y)} :
                  /\ cnt = Cardinality(AliveNeighbours(game, x, y))
                  /\ cnt \in 0 .. 8
                  /\ AllDead(game) => cnt = 0
        /\ (game.width = 3 /\ game.height = 3 /\ AllAlive(game)) => CellValue(game, 1, 1) = 8

\* a fully alive 3x3 grid: the centre has 8 alive neighbours, a corner 3
C8_Witness ==
    /\ ~game.isNil
    /\ game.width = 3 /\ game.height = 3
    /\ AllAlive(game)
    /\ CellValue(game, 1, 1) = 8
    /\ CellValue(game, 0, 0) = 3

\* C9: NewGameOfLife(width, height) returns an error and a nil grid when
\* width <= 0 or height <= 0; otherwise no error and a grid of exactly those
\* dimensions, both buffers height x width, where At(x,y) is false in bounds
\* and out of bounds.
C9_NewGameOfLife ==
    [][\A width \in DimArgs, height \in DimArgs :
        (ret'.op = "NewGameOfLife" /\ NewGameOfLife(width, height)) =>
            IF width <= 0 \/ height <= 0
            THEN ret'.err # ErrNil /\ game'.isNil
            ELSE /\ ret'.err = ErrNil
                 /\ ~game'.isNil
                 /\ game'.width = width /\ game'.height = height
                 /\ DOMAIN game'.data = 0 .. height - 1
                 /\ DOMAIN game'.back_buffer = 0 .. height - 1
                 /\ \A y \in 0 .. height - 1 :
                       /\ DOMAIN game'.data[y] = 0 .. width - 1
                       /\ DOMAIN game'.back_buffer[y] = 0 .. width - 1
                 /\ \A x \in -1 .. width, y \in -1 .. height : ~At(game', x, y)]_vars

\* NewGameOfLife has just failed: an error and no grid
C9_Witness ==
    /\ ret.op = "NewGameOfLife"
    /\ ret.err = ErrInvalidSize
    /\ game.isNil

\* C10: Set(x, y, val) with (x,y) outside the grid returns the out-of-bounds
\* error and leaves every cell of the current and of the staging buffer as it
\* was, for either val.
C10_SetOutOfBounds ==
    [][\A x \in -1 .. game.width, y \in -1 .. game.height, val \in BOOLEAN :
        (ret'.op = "Set" /\ ~InBounds(game, x, y) /\ Set(x, y, val)) =>
            /\ ret'.err = ErrOutOfBounds
            /\ game'.data = game.data
            /\ game'.back_buffer = game.back_buffer
            /\ game'.width = game.width /\ game'.height = game.height]_vars

\* an out-of-bounds Set has just failed on a grid that holds alive cells
C10_Witness ==
    /\ ret.op = "Set"
    /\ ret.err = ErrOutOfBounds
    /\ ~AllDead(game)

(***************************************************************************)
(* Properties of GenerateGIF.                                              *)
(***************************************************************************)
\* generation k of the current run, as Update produced it (generation 0 is the
\* grid GenerateGIF was handed)
Gen(k) == gens[k + 1]

\* the run is over: the loop has been left
Stopped == pc \in {"encode", "done"}

\* the grid GenerateGIF was handed, rebuilt from generation 0
RunStart ==
    [isNil |-> FALSE, width |-> game.width, height |-> game.height,
     data |-> gens[1], back_buffer |-> gens[1]]

\* the cell contents of g and of its n - 1 successors under Update, in order
\* (u holds the value of g, so that g is computed once)
RECURSIVE Generations(_, _)
Generations(g, n) ==
    IF n <= 0
    THEN <<>>
    ELSE CHOOSE s \in {<<u.data>> \o Generations(UpdateResult(u), n - 1) : u \in {g}} : TRUE

PairwiseDifferent(s) == \A a, b \in 1 .. Len(s) : a < b => s[a] # s[b]

\* no generation repeats within the first n generations 0 .. n-1 from g
NoRepeatWithin(g, n) == PairwiseDifferent(Generations(g, n))

\* C3: whenever the loop exits with stable = true after k frames, the grid holds
\* generation k and its cell contents are those of some generation j of the
\* same run with 1 <= j < k (the fingerprint being injective).
C3_NoFalseCycle ==
    (Stopped /\ stable) =>
        LET k == Len(images)
        IN  /\ game.data = Gen(k)
            /\ \E j \in 1 .. k - 1 : Gen(j) = Gen(k)

\* a run has ended on a fingerprint match after at least 3 frames
C3_Witness ==
    /\ pc = "done"
    /\ stable
    /\ Len(images) >= 3

\* C2: the detector never misses a cycle: the loop goes on only while the
\* generation Update just computed differs from every generation seen earlier
\* in the run, generation 0 included; so when the run stops on a detected
\* repeat the rendered frames (generations 0 .. Len(images)-1) are pairwise
\* different.
C2_NeverMissesCycle ==
    /\ pc = "loop" => PairwiseDifferent(gens)
    /\ (Stopped /\ stable) => PairwiseDifferent(SubSeq(gens, 1, Len(images)))

\* the grid holds only a 3-cell horizontal blinker with a free row above and
\* below it (room for its vertical phase)
IsBlinker(d, width, height) ==
    \E bx \in 1 .. width - 2, by \in 1 .. height - 2 :
        \A y \in 0 .. height - 1, x \in 0 .. width - 1 :
            d[y][x] = (y = by /\ x \in bx - 1 .. bx + 1)

\* the grid holds only a 2x2 block of alive cells
IsBlock(d, width, height) ==
    \E bx \in 0 .. width - 2, by \in 0 .. height - 2 :
        \A y \in 0 .. height - 1, x \in 0 .. width - 1 :
            d[y][x] = (y \in by .. by + 1 /\ x \in bx .. bx + 1)

\* C4: a run on a grid holding only a horizontal blinker, with a cap of at
\* least 4, stops on a fingerprint match with exactly 2 frames in the output.
C4_BlinkerTwoFrames ==
    (pc = "done" /\ maxIterations >= 4 /\ IsBlinker(Gen(0), game.width, game.height)) =>
        /\ stable
        /\ Len(output.Image) = 2

\* C5: Update leaves a grid holding only a 2x2 block unchanged, and a run on
\* such a grid, with a cap of at least 2, stops on a fingerprint match with
\* exactly 1 frame in the output.
C5_BlockOneFrame ==
    /\ (~game.isNil /\ IsBlock(game.data, game.width, game.height)) =>
            UpdateResult(game).data = game.data
    /\ (pc = "done" /\ maxIterations >= 2 /\ IsBlock(Gen(0), game.width, game.height)) =>
            /\ stable
            /\ Len(output.Image) = 1

\* C6 as stated: if no generation repeats within the first N generations
\* (0 .. N-1) from the initial grid, a run with cap N stops with stable = false
\* and exactly N frames; and no run holds more than N frames.
C6_CapReachedAsStated ==
    /\ (pc = "done" /\ NoRepeatWithin(RunStart, maxIterations)) =>
            /\ ~stable
            /\ Len(output.Image) = maxIterations
    /\ pc # "idle" => Len(images) <= maxIterations

\* C6 amended: if generations 0 .. N-1 are pairwise different the run with cap
\* N ends with exactly N frames; if generation N differs from them too, it ends
\* with stable = false (only the cap stopped it); no run holds more than N
\* frames.
C6_CapReached ==
    /\ (pc = "done" /\ NoRepeatWithin(RunStart, maxIterations)) =>
            Len(output.Image) = maxIterations
    /\ (pc = "done" /\ NoRepeatWithin(RunStart, maxIterations + 1)) =>
            /\ ~stable
            /\ Len(output.Image) = maxIterations
    /\ pc # "idle" => Len(images) <= maxIterations

\* a run with cap N >= 3 over N + 1 pairwise different generations has ended
\* on the cap alone
C6_Witness ==
    /\ pc = "done"
    /\ maxIterations >= 3
    /\ NoRepeatWithin(RunStart, maxIterations + 1)
    /\ ~stable
    /\ Len(output.Image) = maxIterations

\* C7: for every grid and every positive cap the loop of GenerateGIF
\* terminates, and at termination the frame sequence is non-empty and has one
\* delay entry per frame.
C7_Terminates ==
    /\ (pc = "loop") ~> (pc = "done")
    /\ [](pc = "done" =>
            /\ Len(output.Image) >= 1
            /\ Len(output.Delay) = Len(output.Image))

\* a run over several generations has terminated
C7_Witness ==
    /\ pc = "done"
    /\ Len(output.Image) >= 2
    /\ Len(output.Delay) = Len(output.Image)

(***************************************************************************)
(* Frame effects and invariants of the grid engine.                        *)
(***************************************************************************)
\* C11: Set(x, y, val) with (x,y) in bounds returns no error; afterwards
\* At(x,y) = val and the staging buffer holds val at (x,y); every other cell of
\* both buffers and the dimensions are as before.
C11_SetInBounds ==
    [][\A x \in -1 .. game.width, y \in -1 .. game.height, val \in BOOLEAN :
        (ret'.op = "Set" /\ InBounds(game, x, y) /\ Set(x, y, val)) =>
            /\ ret'.err = ErrNil
            /\ At(game', x, y) = val
            /\ game'.back_buffer[y][x] = val
            /\ game'.width = game.width /\ game'.height = game.height
            /\ \A oy \in 0 .. game.height - 1, ox \in 0 .. game.width - 1 :
                  <<ox, oy>> # <<x, y>> =>
                      /\ game'.data[oy][ox] = game.data[oy][ox]
                      /\ game'.back_buffer[oy][ox] = game.back_buffer[oy][ox]]_vars

\* an in-bounds Set has just succeeded on a grid that holds alive and dead cells
C11_Witness ==
    /\ ret.op = "Set"
    /\ ret.err = ErrNil
    /\ ~AllDead(game)
    /\ ~AllAlive(game)
    /\ game.width * game.height >= 4

(***************************************************************************)
(* Properties of Image.                                                    *)
(***************************************************************************)
\* C12: for every scale >= 1 the frame Image(scale) returns has exactly
\* height*scale rows of width*scale pixels, and pixel (px,py) is black iff
\* At(px div scale, py div scale) and white otherwise: every cell is a
\* scale x scale block, the inclusive corner of DrawRect notwithstanding.
C12_ImageBlocks ==
    (ret.op = "Image" /\ frame.scale >= 1) =>
        /\ ~frame.isNil
        /\ DOMAIN frame.pix = 0 .. game.height * frame.scale - 1
        /\ \A py \in 0 .. game.height * frame.scale - 1 :
              /\ DOMAIN frame.pix[py] = 0 .. game.width * frame.scale - 1
              /\ \A px \in 0 .. game.width * frame.scale - 1 :
                    frame.pix[py][px] =
                        IF At(game, px \div frame.scale, py \div frame.scale)
                        THEN Black ELSE White

\* Image has returned the frame of a grid with an alive and a dead cell in one
\* row and in one column, at a scale above 1
C12_Witness ==
    /\ ret.op = "Image"
    /\ frame.scale >= 2
    /\ game.width >= 2 /\ game.height >= 2
    /\ At(game, 0, 0) /\ ~At(game, 1, 0) /\ ~At(game, 0, 1)

\* C13: Image with scale <= 0 fails with an invalid-scale error and returns no
\* frame.
C13_InvalidScale ==
    (ret.op = "Image" /\ frame.scale <= 0) =>
        /\ ret.err = "invalid scale"
        /\ frame.isNil

AliveCells(d) == {c \in UNION {{<<x, y>> : x \in DOMAIN d[y]} : y \in DOMAIN d} : d[c[2]][c[1]]}

\* C15: an Update on a grid with exactly one alive cell, wherever it lies,
\* leaves every cell dead, and an Update on an all-dead grid leaves it all-dead.
C15_SingleCellDies ==
    [][((ret'.op = "Update" /\ Update) \/ (pc = "loop" /\ GenerateGIFLoop)) =>
        (Cardinality(AliveCells(game.data)) <= 1 => AllDead(game'))]_vars

\* a run started from a 3x3 grid whose only alive cell is a corner: generation
\* 1 is all-dead and so is generation 2
C15_Witness ==
    /\ pc # "idle"
    /\ Len(gens) >= 3
    /\ game.width = 3 /\ game.height = 3
    /\ AliveCells(gens[1]) = {<<2, 0>>}
    /\ AliveCells(gens[2]) = {}
    /\ AliveCells(gens[3]) = {}

(***************************************************************************)
(* Order of the frames.                                                    *)
(***************************************************************************)
\* the grid of the current run holding generation k
GenGrid(k) ==
    [isNil |-> FALSE, width |-> game.width, height |-> game.height,
     data |-> Gen(k), back_buffer |-> Gen(k)]

\* C17: in every run generation k is the Update result of generation k - 1,
\* from the initial grid on, and frame k (from 0) is the rendering of generation k, for
\* every k; the grid is always one generation ahead of the last frame, so the
\* generation that stops the loop is never rendered into the output.
C17_FramesInOrder ==
    pc # "idle" =>
        /\ \A k \in 1 .. Len(gens) - 1 :
              \A g \in {GenGrid(k - 1)} : Gen(k) = UpdateResult(g).data
        /\ game.data = Gen(Len(gens) - 1)
        /\ Len(gens) = Len(images) + 1
        /\ \A k \in 0 .. Len(images) - 1 :
              \A g \in {GenGrid(k)} : images[k + 1] = Image(g, GIFScale)
        /\ pc = "done" => output.Image = images

\* a run has ended with three frames of three different generations
C17_Witness ==
    /\ pc = "done"
    /\ Len(output.Image) = 3
    /\ Gen(0) # Gen(1) /\ Gen(1) # Gen(2) /\ Gen(0) # Gen(2)
    /\ output.Image[1] # output.Image[2]
    /\ output.Image[2] # output.Image[3]

(***************************************************************************)
(* The two buffers.                                                        *)
(***************************************************************************)
\* C19: after NewGameOfLife and after every completed Set (failed ones
\* included), Update and Flush call the staging buffer equals the current
\* buffer at every cell, both buffers are height x width, and no call on an
\* existing grid changes width or height.
C19_BuffersInSync ==
    /\ [](~game.isNil =>
            /\ DOMAIN game.data = 0 .. game.height - 1
            /\ DOMAIN game.back_buffer = 0 .. game.height - 1
            /\ \A y \in 0 .. game.height - 1 :
                  /\ DOMAIN game.data[y] = 0 .. game.width - 1
                  /\ DOMAIN game.back_buffer[y] = 0 .. game.width - 1
                  /\ \A x \in 0 .. game.width - 1 :
                        game.back_buffer[y][x] = game.data[y][x])
    /\ [][(~game.isNil /\ ~game'.isNil) =>
            (game'.width = game.width /\ game'.height = game.height)]_vars

\* Set, Update and Flush calls have left a 3x3 grid with alive and dead cells;
\* the last call was Flush
C19_Witness ==
    /\ ret.op = "Flush"
    /\ game.width = 3 /\ game.height = 3
    /\ ~AllDead(game)
    /\ ~AllAlive(game)
    /\ game.back_buffer = game.data

(***************************************************************************)
(* Update, cell by cell.                                                   *)
(***************************************************************************)
\* the grid as it was when the running Update was entered
BeforeGrid ==
    [isNil |-> FALSE, width |-> game.width, height |-> game.height,
     data |-> scan.before, back_buffer |-> scan.before]

\* C18: while Update scans, the current buffer is not written: at every point
\* of the scan At and CellValue return what they returned when Update was
\* entered; the current buffer changes only in the Flush after the last cell,
\* and what Flush installs is, cell by cell, the successor of the generation
\* held at entry.
C18_ScanReadsOldGeneration ==
    /\ [](scan.active =>
            \A y \in -1 .. game.height, x \in -1 .. game.width :
                /\ At(game, x, y) = At(BeforeGrid, x, y)
                /\ CellValue(game, x, y) = CellValue(BeforeGrid, x, y))
    /\ [][game'.data # game.data => (scan.active /\ scan.k = game.width * game.height)]_vars
    /\ [][(scan.active /\ ~scan'.active) =>
            \A y \in 0 .. game.height - 1, x \in 0 .. game.width - 1 :
                At(game', x, y) = LifeRule(At(BeforeGrid, x, y), CellValue(BeforeGrid, x, y))]_vars

\* Update is in the middle of its scan and has already written a new value
\* into the staging buffer
C18_Witness ==
    /\ scan.active
    /\ scan.k > 0
    /\ scan.k < game.width * game.height
    /\ game.back_buffer # game.data
    /\ game.data = scan.before

(***************************************************************************)
(* The handlers.                                                           *)
(***************************************************************************)
\* C20: in both handlers GenerateGIF is called only with a grid: when the
\* loader fails and returns no grid the handler ends without the call, so
\* GenerateGIF never runs on a nil grid.
C20_NoNilGrid ==
    ret.op = "GenerateGIF" => (~game.isNil /\ pc # "panic")

(***************************************************************************)
(* Concurrent simulations.                                                 *)
(***************************************************************************)
\* the frames of a GenerateGIF call that runs alone on grid g with iteration
\* cap cap, from the point where it holds the frames imgs and the history sums
RECURSIVE FramesAlone(_, _, _, _)
FramesAlone(g, sums, imgs, cap) ==
    LET next == UpdateResult(g)
        hs == Checksum(DataBuffer(next))
        frames == Append(imgs, Image(g, GIFScale))
    IN  IF LoopBreak(Seen(sums, hs), Len(frames), cap)
        THEN frames
        ELSE FramesAlone(next, Append(sums, hs), frames, cap)

\* C16: the calls share no mutable state: a call's fingerprint history holds
\* only fingerprints of its own generations and is empty before the call and
\* after it; whatever the interleaving of two calls on separate grids, each
\* call's frame sequence is the one the call produces when it runs alone on
\* its grid.
C16_RunsIndependent ==
    \A p \in Goroutines :
        /\ runs[p].pc \in {"idle", "done"} => runs[p].hash_sums = <<>>
        /\ Len(runs[p].hash_sums) <= Len(runs[p].images)
        /\ runs[p].pc = "done" =>
              \A g \in {runs[p].start} :
                  runs[p].output.Image = FramesAlone(g, <<>>, <<>>, maxIterations)

\* two calls on different grids have both ended, with different numbers of
\* frames, the longer one with at least 3
C16_Witness ==
    /\ runs[1].pc = "done"
    /\ runs[2].pc = "done"
    /\ runs[1].start # runs[2].start
    /\ Len(runs[1].output.Image) >= 3
    /\ Len(runs[2].output.Image) < Len(runs[1].output.Image)

====
